---- MODULE Spec2Model ----
(***************************************************************************)
(* Model of the ezviz client (package ezviz): the expiring single-slot     *)
(* cache (FileCache, InMemoryCache), the token refresh logic               *)
(* (EzvizClient.RefreshAccessToken) and the RPC dispatcher (httpRPC,       *)
(* httpRequest) in its two variants: the JSON-body variant of goezviz.go   *)
(* and the query-parameter variant of util.go.                             *)
(*                                                                         *)
(* Strings are TLA+ strings, except the Content-Type header, which is a    *)
(* sequence of character chunks so that the prefix test of httpRequest    *)
(* is computed as the code computes it.  A JSON text is represented by the *)
(* document it spells: an object whose members are each present (a         *)
(* one-element sequence) or absent (the empty sequence), or a text that    *)
(* is not JSON at all (valid = FALSE).                                     *)
(***************************************************************************)
EXTENDS Integers, Sequences, FiniteSets, TLC

VARIABLES
    client,     \* EzvizClient: [AppKey, AppSecret, AccessToken]
    mode,       \* which variant of the dispatcher is built: "json" or "query"
    cacheKind,  \* the implementation behind client.Cache: "file" or "mem"
    store,      \* the cache slot: <<>> (no file / nil data) or <<document>>
    clock,      \* time.Now().Unix(), in seconds
    lastSet,    \* the latest call of Cache.Set: <<>> or <<[data, err]>>
    twin,       \* an InMemoryCache given the same calls as the cache of store
    threads,    \* the calls of RefreshAccessToken in progress, one per thread
    files,      \* the cache files of the working directory, by path
    facades,    \* the clients constructed by NewEzvizClient, by number
    last        \* the last operation: its inputs, the state it started in, its results

\* the variables of the scenarios with a second cache, threads or several
\* clients; the other scenarios leave them alone
extVars == <<twin, threads, files, facades>>

vars == <<client, mode, cacheKind, store, clock, lastSet, last, extVars>>

(***************************************************************************)
(* Bounds and program constants                                            *)
(***************************************************************************)
MaxClock == 3

HTTPStatusOK == 200

MsPerSecond == 1000

typeJSON == <<"application", "/", "json">>

TokenPath == "/lapp/token/get"

Nil == <<"nil">>

(***************************************************************************)
(* Go values                                                               *)
(***************************************************************************)
\* var res AccessTokenResponse: the zero value
ZeroRes ==
    [Code |-> "", Msg |-> "", Data |-> [AccessToken |-> "", ExpireTime |-> 0]]

MkRes(code, msg, tok, exp) ==
    [Code |-> code, Msg |-> msg, Data |-> [AccessToken |-> tok, ExpireTime |-> exp]]

\* (e *AccessTokenResponse) GetExpireTime
GetExpireTime(e) ==
    e.Data.ExpireTime

\* Go's integer division truncates toward zero
GoDiv(a, b) ==
    IF a >= 0 THEN a \div b ELSE -((-a) \div b)

(***************************************************************************)
(* encoding/json, as far as the records of this package use it             *)
(***************************************************************************)
BadUTF8 == "\\xff"

ReplacementChar == "\\ufffd"

\* json coerces every string it writes or reads to valid UTF-8
CoerceUTF8(s) ==
    IF s = BadUTF8 THEN ReplacementChar ELSE s

BadDoc ==
    [valid |-> FALSE, code |-> <<>>, msg |-> <<>>, accessToken |-> <<>>,
     expireTime |-> <<>>]

MkDoc(code, msg, tok, exp) ==
    [valid |-> TRUE, code |-> code, msg |-> msg, accessToken |-> tok,
     expireTime |-> exp]

\* json.Marshal of an AccessTokenResponse: every member is written (no
\* omitempty), strings coerced to valid UTF-8; it cannot fail for this type.
Marshal(data) ==
    [err   |-> Nil,
     bytes |-> MkDoc(<<CoerceUTF8(data.Code)>>, <<CoerceUTF8(data.Msg)>>,
                     <<CoerceUTF8(data.Data.AccessToken)>>,
                     <<data.Data.ExpireTime>>)]

\* json.Unmarshal into an AccessTokenResponse that may already hold data: a
\* text that is not JSON is refused before anything is stored; otherwise the
\* members present overwrite their fields and the absent ones leave theirs.
Unmarshal(doc, into) ==
    IF ~doc.valid
    THEN [err |-> <<"decode">>, data |-> into]
    ELSE [err  |-> Nil,
          data |-> [Code |-> IF doc.code = <<>> THEN into.Code
                             ELSE CoerceUTF8(doc.code[1]),
                    Msg  |-> IF doc.msg = <<>> THEN into.Msg
                             ELSE CoerceUTF8(doc.msg[1]),
                    Data |-> [AccessToken |->
                                  IF doc.accessToken = <<>>
                                  THEN into.Data.AccessToken
                                  ELSE CoerceUTF8(doc.accessToken[1]),
                              ExpireTime |->
                                  IF doc.expireTime = <<>>
                                  THEN into.Data.ExpireTime
                                  ELSE doc.expireTime[1]]]]

(***************************************************************************)
(* The expiring cache (util.go)                                            *)
(***************************************************************************)
ErrExpired == <<"expired", "Data is already expired">>

ErrNotFound == <<"notfound">>

\* time.Now().Unix() > expireTime/1000
Expired(now, expireTime) ==
    now > GoDiv(expireTime, MsPerSecond)

\* ioutil.WriteFile, whose error FileCache.Set drops: the file is replaced
\* ("ok"), left as it was (it cannot be opened: "denied") or left truncated
\* (the write fails after the open: "partial").
WriteFile(file, bytes, wr) ==
    CASE wr = "ok"      -> <<bytes>>
      [] wr = "denied"  -> file
      [] wr = "partial" -> <<BadDoc>>

FileCacheSet(file, data, wr) ==
    LET m == Marshal(data)
    IN  [err   |-> m.err,
         store |-> IF m.err = Nil THEN WriteFile(file, m.bytes, wr) ELSE file]

\* FileCache.Get as an eviction would write it: the expired file is removed
FileCacheGet_Evict(file, data, now) ==
    IF file = <<>>
    THEN [err |-> ErrNotFound, data |-> data, store |-> file]
    ELSE LET u == Unmarshal(file[1], data)
         IN  IF u.err = Nil /\ Expired(now, GetExpireTime(u.data))
             THEN [err |-> ErrExpired, data |-> u.data, store |-> <<>>]
             ELSE [err |-> u.err, data |-> u.data, store |-> file]

\* FileCache.Get: the error, the record as the call leaves it and the file
\* as the call leaves it (it is only read)
FileCacheGet(file, data, now) ==
    IF file = <<>>
    THEN [err |-> ErrNotFound, data |-> data, store |-> file]
    ELSE LET u == Unmarshal(file[1], data)
         IN  IF u.err = Nil /\ Expired(now, GetExpireTime(u.data))
             THEN [err |-> ErrExpired, data |-> u.data, store |-> file]
             ELSE [err |-> u.err, data |-> u.data, store |-> file]

InMemoryCacheSet(mem, data) ==
    LET m == Marshal(data)
    IN  [err   |-> m.err,
         store |-> IF m.err = Nil THEN <<m.bytes>> ELSE mem]

InMemoryCacheGet(mem, data, now) ==
    LET u == Unmarshal(IF mem = <<>> THEN BadDoc ELSE mem[1], data)
    IN  IF u.err = Nil /\ Expired(now, GetExpireTime(u.data))
        THEN [err |-> ErrExpired, data |-> u.data, store |-> mem]
        ELSE [err |-> u.err, data |-> u.data, store |-> mem]

\* the Cache interface: the call goes to the implementation behind it
CacheSet(kind, slot, data, wr) ==
    IF kind = "file" THEN FileCacheSet(slot, data, wr)
    ELSE InMemoryCacheSet(slot, data)

CacheGet(kind, slot, data, now) ==
    IF kind = "file" THEN FileCacheGet(slot, data, now)
    ELSE InMemoryCacheGet(slot, data, now)

(***************************************************************************)
(* url.Values                                                              *)
(***************************************************************************)
ParamKeys == {"accessToken", "appKey", "appSecret", "q"}

NoValues == [k \in ParamKeys |-> <<>>]

\* var params url.Values (nil) and url.Values{}
NilValues == [isNil |-> TRUE, m |-> NoValues]

EmptyValues == [isNil |-> FALSE, m |-> NoValues]

\* Values.Get: the first value of the key, "" when it has none
ValuesGet(params, key) ==
    IF params.m[key] = <<>> THEN "" ELSE params.m[key][1]

\* Values.Set: the key's values are replaced by the one value
ValuesSet(params, key, value) ==
    [params EXCEPT !.m[key] = <<value>>]

\* Values.Encode: the key/value pairs that appear in the URL's query
ValuesEncode(params) ==
    params.m

(***************************************************************************)
(* The RPC dispatcher (goezviz.go, util.go)                                *)
(***************************************************************************)
ErrPanic == <<"panic", "nil pointer dereference">>

\* (data *OAPIResponse) checkError
checkError(data) ==
    IF data.Code # "200" THEN <<"api", data.Code, data.Msg>> ELSE Nil

\* (data *OAPIResponse) getWriter: the response shapes of the package return
\* nil (writer = "nil"); the Unmarshallable interface lets a shape return a
\* sink (writer = "sink").
getWriter(responseData) ==
    responseData.writer

\* a response shape of the package around an AccessTokenResponse
Shape(res) ==
    [res |-> res, writer |-> "nil", sink |-> <<>>]

\* resp.StatusCode != 200, with the test dropped
StatusFails_Never(resp) ==
    FALSE

\* resp.StatusCode != 200
StatusFails(resp) ==
    resp.StatusCode # HTTPStatusOK

\* len(contentType) >= pos && contentType[0:pos] == typeJSON
IsJSON(contentType) ==
    LET pos == Len(typeJSON)
    IN  Len(contentType) >= pos /\ SubSeq(contentType, 1, pos) = typeJSON

\* json.Marshal of a request payload, a map of strings: the JSON object of
\* its members, their values coerced to valid UTF-8
MarshalPayload(payload) ==
    [valid |-> TRUE,
     members |-> [k \in DOMAIN payload |-> CoerceUTF8(payload[k])]]

\* the request with the payload test lost: a payload is never sent
BuildRequest_NoBody(variant, path, params, requestData) ==
    [method |-> IF variant = "json" THEN "GET" ELSE "POST",
     path |-> path, query |-> ValuesEncode(params),
     body |-> <<>>, contentType |-> <<>>]

\* the request httpRequest builds: the JSON-body variant posts a payload and
\* gets without one, the query variant always posts without a body
BuildRequest(variant, path, params, requestData) ==
    IF variant = "json" /\ requestData # <<>>
    THEN [method |-> "POST", path |-> path, query |-> ValuesEncode(params),
          body |-> <<MarshalPayload(requestData[1])>>,
          contentType |-> typeJSON]
    ELSE [method |-> IF variant = "json" THEN "GET" ELSE "POST",
          path |-> path, query |-> ValuesEncode(params),
          body |-> <<>>, contentType |-> <<>>]

\* io.Copy(responseData.getWriter(), resp.Body): the bytes the body delivers
\* are written to the writer; writing to the nil writer panics, which
\* happens as soon as the body delivers a byte.
CopyBody(responseData, resp) ==
    LET got == SubSeq(resp.Body.bytes, 1, resp.delivered)
    IN  IF getWriter(responseData) = "nil"
        THEN [panicked |-> got # <<>>, responseData |-> responseData]
        ELSE [panicked |-> FALSE,
              responseData |->
                  [responseData EXCEPT !.sink = responseData.sink \o got]]

\* httpRequest after client.Do(request): resp is what the transport and the
\* server answer.  The result holds the error returned, the response shape
\* as the call leaves it and whether the call panicked instead of returning.
HandleResponse(responseData, resp) ==
    IF resp.transport # "ok"
    THEN [err |-> <<"transport">>, responseData |-> responseData,
          panicked |-> FALSE]
    ELSE IF StatusFails(resp)
    THEN [err |-> <<"server", resp.Status>>, responseData |-> responseData,
          panicked |-> FALSE]
    ELSE IF IsJSON(resp.ContentType)
    THEN IF resp.readErr
         THEN [err |-> <<"read">>, responseData |-> responseData,
               panicked |-> FALSE]
         ELSE LET u == Unmarshal(resp.Body.doc, responseData.res)
                  d == [responseData EXCEPT !.res = u.data]
              IN  [err |-> checkError(d.res), responseData |-> d,
                   panicked |-> FALSE]
    ELSE LET cp == CopyBody(responseData, resp)
         IN  IF cp.panicked
             THEN [err |-> ErrPanic, responseData |-> cp.responseData,
                   panicked |-> TRUE]
             ELSE [err |-> checkError(cp.responseData.res),
                   responseData |-> cp.responseData, panicked |-> FALSE]

httpRequest(variant, path, params, requestData, responseData, resp) ==
    LET h == HandleResponse(responseData, resp)
    IN  [err          |-> h.err,
         responseData |-> h.responseData,
         panicked     |-> h.panicked,
         requests     |-> <<BuildRequest(variant, path, params, requestData)>>,
         resp         |-> resp,
         shapeIn      |-> responseData]

\* the parameters httpRPC passes on, with the test for a supplied token dropped
InjectToken_Always(c, params) ==
    IF c.AccessToken # ""
    THEN ValuesSet(IF params.isNil THEN EmptyValues ELSE params,
                   "accessToken", c.AccessToken)
    ELSE params

\* the parameters httpRPC passes on
InjectToken(c, params) ==
    IF c.AccessToken # ""
    THEN LET p == IF params.isNil THEN EmptyValues ELSE params
         IN  IF ValuesGet(p, "accessToken") = ""
             THEN ValuesSet(p, "accessToken", c.AccessToken)
             ELSE p
    ELSE params

httpRPC(variant, c, path, params, requestData, responseData, resp) ==
    httpRequest(variant, path, InjectToken(c, params), requestData,
                responseData, resp)

(***************************************************************************)
(* The credential store (EzvizClient.RefreshAccessToken)                   *)
(***************************************************************************)
\* c.AccessToken = res.Data.AccessToken, with the assignment lost
AdoptToken_Skip(c, res) ==
    c

\* c.AccessToken = res.Data.AccessToken
AdoptToken(c, res) ==
    [c EXCEPT !.AccessToken = res.Data.AccessToken]

\* the parameters and the payload of the authentication call: the JSON-body
\* variant passes nil parameters and the key and secret as payload, the
\* query variant passes them as parameters and a nil payload
AuthParams(variant, c) ==
    IF variant = "json" THEN NilValues
    ELSE [isNil |-> FALSE,
          m |-> [NoValues EXCEPT !["appKey"] = <<c.AppKey>>,
                                 !["appSecret"] = <<c.AppSecret>>]]

AuthPayload(variant, c) ==
    IF variant = "json"
    THEN <<[appkey |-> c.AppKey, appsecret |-> c.AppSecret]>>
    ELSE <<>>

\* the lines after the authentication call, with the token adopted before
\* the error is looked at
AfterAuth_AdoptFirst(c, kind, slot, r, wr) ==
    IF r.err = Nil
    THEN LET s == CacheSet(kind, slot, r.responseData.res, wr)
         IN  [client |-> AdoptToken(c, r.responseData.res),
              store |-> s.store, err |-> s.err, wrote |-> TRUE]
    ELSE [client |-> AdoptToken(c, r.responseData.res), store |-> slot,
          err |-> r.err, wrote |-> FALSE]

\* the lines after the authentication call, with the record persisted
\* whatever the call returned
AfterAuth_PersistAlways(c, kind, slot, r, wr) ==
    LET s == CacheSet(kind, slot, r.responseData.res, "ok")
    IN  [client |-> IF r.err = Nil THEN AdoptToken(c, r.responseData.res)
                    ELSE c,
         store |-> s.store,
         err |-> IF r.err = Nil THEN s.err ELSE r.err,
         wrote |-> TRUE]

\* if err == nil { c.AccessToken = ...; err = c.Cache.Set(&res) }; return err
AfterAuth(c, kind, slot, r, wr) ==
    IF r.err = Nil
    THEN LET s == CacheSet(kind, slot, r.responseData.res, wr)
         IN  [client |-> AdoptToken(c, r.responseData.res),
              store |-> s.store, err |-> s.err, wrote |-> TRUE]
    ELSE [client |-> c, store |-> slot, err |-> r.err, wrote |-> FALSE]

\* One call of RefreshAccessToken.  get is the result of the cache read,
\* rpc the authentication calls made (none or one), wrote whether
\* Cache.Set was called, panicked whether the call panicked instead of
\* returning (nothing is assigned then).
RefreshAccessToken(variant, c, kind, slot, now, resp, wr) ==
    LET get == CacheGet(kind, slot, ZeroRes, now)
    IN  IF get.err = Nil
        THEN [client |-> AdoptToken(c, get.data), store |-> get.store,
              err |-> Nil, get |-> get, rpc |-> <<>>, wrote |-> FALSE,
              panicked |-> FALSE]
        ELSE LET r == httpRPC(variant, c, TokenPath, AuthParams(variant, c),
                              AuthPayload(variant, c), Shape(get.data), resp)
                 a == AfterAuth(c, kind, get.store, r, wr)
             IN  IF r.panicked
                 THEN [client |-> c, store |-> get.store, err |-> r.err,
                       get |-> get, rpc |-> <<r>>, wrote |-> FALSE,
                       panicked |-> TRUE]
                 ELSE [client |-> a.client, store |-> a.store, err |-> a.err,
                       get |-> get, rpc |-> <<r>>, wrote |-> a.wrote,
                       panicked |-> FALSE]

(***************************************************************************)
(* The environment: what the server, the transport and the file system     *)
(* may answer, and what callers may pass                                   *)
(***************************************************************************)
ServerDocs ==
    << MkDoc(<<"200">>, <<"ok">>, <<"T1">>, <<1500>>),
       MkDoc(<<"200">>, <<"">>, <<"T2">>, <<2000>>),
       MkDoc(<<"400">>, <<"bad key">>, <<>>, <<>>),
       MkDoc(<<"200">>, <<>>, <<>>, <<>>),
       MkDoc(<<>>, <<>>, <<>>, <<>>),
       MkDoc(<<"200">>, <<"ok">>, <<BadUTF8>>, <<2000>>) >>

\* a body: its bytes and the JSON document they spell, if any
Bodies ==
    { [bytes |-> <<i>>, doc |-> ServerDocs[i]] : i \in DOMAIN ServerDocs }
    \cup { [bytes |-> <<>>, doc |-> BadDoc],
           [bytes |-> <<100>>, doc |-> BadDoc],
           [bytes |-> <<101, 102>>, doc |-> BadDoc] }

ContentTypes ==
    { typeJSON, typeJSON \o <<"; charset=utf-8">>, <<"text", "/", "plain">>,
      <<"application">>, <<>> }

NoResponse ==
    [transport |-> "fail", StatusCode |-> 0, Status |-> "",
     ContentType |-> <<>>, Body |-> [bytes |-> <<>>, doc |-> BadDoc],
     delivered |-> 0, readErr |-> FALSE]

\* the body of a response whose status is not 200 is never read
Responses ==
    {NoResponse}
    \cup { [transport |-> "ok", StatusCode |-> 500,
            Status |-> "500 Internal Server Error", ContentType |-> ct,
            Body |-> b, delivered |-> Len(b.bytes), readErr |-> FALSE] :
           ct \in {typeJSON, <<>>},
           b \in {x \in Bodies : x.bytes \in {<<1>>, <<>>}} }
    \cup { r \in [transport : {"ok"}, StatusCode : {HTTPStatusOK},
                  Status : {"200 OK"}, ContentType : ContentTypes,
                  Body : Bodies, delivered : 0..2, readErr : BOOLEAN] :
           IF r.readErr THEN r.delivered < Len(r.Body.bytes)
                             \/ r.delivered = 0
           ELSE r.delivered = Len(r.Body.bytes) }

WriteOutcomes == {"ok", "denied", "partial"}

\* the records a caller may hand to Cache.Set: records as the package
\* produces them, decoded from JSON and so valid text
SetRecords ==
    { MkRes("200", "ok", "T1", 1500), MkRes("200", "", "T2", 2000),
      MkRes("200", "ok", ReplacementChar, 2000) }

\* what the cache file may hold when the client is constructed
InitFiles ==
    { <<>>, <<BadDoc>>, <<Marshal(MkRes("200", "ok", "T0", 1500)).bytes>> }

CallerParams ==
    {NilValues}
    \cup { [isNil |-> FALSE,
            m |-> [NoValues EXCEPT !["accessToken"] = a, !["q"] = q]] :
           a \in {<<>>, <<"">>, <<"T1">>, <<"X">>, <<"", "X">>},
           q \in {<<>>, <<"1">>} }

CallerPayloads == { <<>>, <<[deviceSerial |-> "D1"]>> }

CallerShapes ==
    { [res |-> ZeroRes, writer |-> w, sink |-> <<>>] : w \in {"nil", "sink"} }

(***************************************************************************)
(* Actions                                                                 *)
(***************************************************************************)
Pre == [client |-> client, store |-> store, clock |-> clock]

\* no second cache, no thread, no file table and no further client
InitExt ==
    /\ twin = <<>>
    /\ threads = <<>>
    /\ files = <<>>
    /\ facades = <<>>

Init ==
    /\ client = [AppKey |-> "K", AppSecret |-> "S", AccessToken |-> ""]
    /\ mode \in {"json", "query"}
    /\ cacheKind \in {"file", "mem"}
    /\ store \in (IF cacheKind = "file" THEN InitFiles ELSE {<<>>})
    /\ clock = 0
    /\ lastSet = <<>>
    /\ InitExt
    /\ last = [op |-> "init"]

Tick ==
    /\ clock < MaxClock
    /\ clock' = clock + 1
    /\ last' = [op |-> "Tick"]
    /\ UNCHANGED <<client, mode, cacheKind, store, lastSet, extVars>>

\* the answers the authentication call is tried against
AuthResponses ==
    { r \in Responses :
        \/ r.transport = "fail"
        \/ r.StatusCode # HTTPStatusOK /\ r.ContentType = typeJSON
             /\ r.Body.bytes = <<1>>
        \/ r.StatusCode = HTTPStatusOK /\ r.ContentType = typeJSON
             /\ ~r.readErr /\ Len(r.Body.bytes) = 1
        \/ r.StatusCode = HTTPStatusOK /\ r.ContentType = typeJSON
             /\ r.readErr /\ r.Body.bytes = <<1>>
        \/ r.StatusCode = HTTPStatusOK /\ Len(r.ContentType) = 4
             /\ ~r.readErr /\ r.Body.bytes = <<2>>
        \/ r.StatusCode = HTTPStatusOK /\ ~IsJSON(r.ContentType)
             /\ r.ContentType # <<>> /\ Len(r.ContentType) # 1 /\ ~r.readErr
             /\ r.Body.bytes \in {<<>>, <<101, 102>>}
        \/ r.StatusCode = HTTPStatusOK /\ r.ContentType = <<>>
             /\ ~r.readErr /\ r.Body.bytes = <<1>> }

\* the responses and write outcomes that a call started now can meet: none
\* when the cache read succeeds, no write outcome when Set is not reached or
\* the cache is in memory
RefreshInputs ==
    LET g == CacheGet(cacheKind, store, ZeroRes, clock)
    IN  IF g.err = Nil
        THEN {<<NoResponse, "none">>}
        ELSE { in \in AuthResponses \X (WriteOutcomes \cup {"none"}) :
               LET r == httpRPC(mode, client, TokenPath,
                                AuthParams(mode, client),
                                AuthPayload(mode, client), Shape(g.data),
                                in[1])
               IN  (in[2] # "none") <=> (r.err = Nil /\ cacheKind = "file") }

\* one call of RefreshAccessToken that meets the answer resp and the write
\* outcome wr
RefreshStep(resp, wr) ==
    LET out == RefreshAccessToken(mode, client, cacheKind, store, clock,
                                  resp, wr)
    IN  /\ client' = out.client
        /\ store' = out.store
        /\ lastSet' = IF out.wrote
                      THEN <<[data |-> out.rpc[1].responseData.res,
                              err |-> out.err]>>
                      ELSE lastSet
        /\ last' = [op |-> "RefreshAccessToken", pre |-> Pre,
                    resp |-> resp, wr |-> wr, get |-> out.get,
                    rpc |-> out.rpc, wrote |-> out.wrote,
                    err |-> out.err, panicked |-> out.panicked]
        /\ UNCHANGED <<mode, cacheKind, clock, extVars>>

DoRefreshAccessToken ==
    \E in \in RefreshInputs : RefreshStep(in[1], in[2])

\* a domain call through the generic entry point
HttpRPCResult(params, payload, shape, resp) ==
    LET r == httpRPC(mode, client, "/lapp/device/list", params, payload,
                     shape, resp)
    IN  [op |-> "httpRPC", pre |-> Pre, params |-> params,
         payload |-> payload, rpc |-> <<r>>, err |-> r.err,
         panicked |-> r.panicked]

DoHttpRPC ==
    \E params \in {NilValues, ValuesSet(EmptyValues, "accessToken", "X")},
       shape \in CallerShapes,
       resp \in {r \in AuthResponses : r.Body.bytes # <<1>> => r.readErr} :
        /\ last' = HttpRPCResult(params, <<>>, shape, resp)
        /\ UNCHANGED <<client, mode, cacheKind, store, clock, lastSet, extVars>>

DoCacheSet ==
    \E data \in SetRecords,
       wr \in (IF cacheKind = "file" THEN WriteOutcomes ELSE {"none"}) :
        LET s == CacheSet(cacheKind, store, data, wr)
        IN  /\ store' = s.store
            /\ lastSet' = <<[data |-> data, err |-> s.err]>>
            /\ last' = [op |-> "Set", pre |-> Pre, data |-> data, wr |-> wr,
                        err |-> s.err]
            /\ UNCHANGED <<client, mode, cacheKind, clock, extVars>>

DoCacheGet ==
    LET g == CacheGet(cacheKind, store, ZeroRes, clock)
    IN  /\ store' = g.store
        /\ last' = [op |-> "Get", pre |-> Pre, err |-> g.err,
                    data |-> g.data]
        /\ UNCHANGED <<client, mode, cacheKind, clock, lastSet, extVars>>

Next ==
    \/ Tick
    \/ DoRefreshAccessToken
    \/ DoHttpRPC

Spec == Init /\ [][Next]_vars

(***************************************************************************)
(* The cache alone: Set and Get called directly on either implementation   *)
(***************************************************************************)
NextCache ==
    \/ Tick
    \/ DoCacheSet
    \/ DoCacheGet

SpecCache == Init /\ [][NextCache]_vars

(***************************************************************************)
(* The dispatcher alone: one call of httpRPC for every client state,       *)
(* argument list and answer                                                *)
(***************************************************************************)
InitDispatch ==
    /\ client \in [AppKey : {"K"}, AppSecret : {"S"},
                   AccessToken : {"", "T1"}]
    /\ mode \in {"json", "query"}
    /\ cacheKind = "mem"
    /\ store = <<>>
    /\ clock = 0
    /\ lastSet = <<>>
    /\ InitExt
    /\ last \in [op : {"call"}, params : CallerParams,
                 payload : CallerPayloads, shape : CallerShapes,
                 resp : Responses]

DispatchCall ==
    /\ last.op = "call"
    /\ last' = HttpRPCResult(last.params, last.payload, last.shape, last.resp)
    /\ UNCHANGED <<client, mode, cacheKind, store, clock, lastSet, extVars>>

\* the authentication call of RefreshAccessToken on the empty in-memory
\* cache, for every client state and answer
AuthCall ==
    /\ last.op = "call"
    /\ last.params = NilValues
    /\ last.payload = <<>>
    /\ last.shape.writer = "nil"
    /\ RefreshStep(last.resp, "none")

NextDispatch ==
    \/ DispatchCall
    \/ AuthCall

SpecDispatch == InitDispatch /\ [][NextDispatch]_vars

(***************************************************************************)
(* The two caches side by side: the same Set and Get calls made on a       *)
(* FileCache (store) and on an InMemoryCache (twin), both empty at first    *)
(***************************************************************************)
InitTwin ==
    /\ Init
    /\ cacheKind = "file"
    /\ store = <<>>

TwinSet ==
    \E data \in SetRecords, wr \in WriteOutcomes :
        LET f == FileCacheSet(store, data, wr)
            m == InMemoryCacheSet(twin, data)
        IN  /\ store' = f.store
            /\ twin' = m.store
            /\ lastSet' = <<[data |-> data, err |-> f.err]>>
            /\ last' = [op |-> "TwinSet", pre |-> Pre, data |-> data,
                        wr |-> wr, file |-> [err |-> f.err],
                        mem |-> [err |-> m.err]]
            /\ UNCHANGED <<client, mode, cacheKind, clock, threads, files,
                           facades>>

TwinGet ==
    LET f == FileCacheGet(store, ZeroRes, clock)
        m == InMemoryCacheGet(twin, ZeroRes, clock)
    IN  /\ store' = f.store
        /\ twin' = m.store
        /\ last' = [op |-> "TwinGet", pre |-> Pre,
                    file |-> [err |-> f.err, data |-> f.data],
                    mem |-> [err |-> m.err, data |-> m.data]]
        /\ UNCHANGED <<client, mode, cacheKind, clock, lastSet, threads,
                       files, facades>>

NextTwin ==
    \/ Tick
    \/ TwinSet
    \/ TwinGet

SpecTwin == InitTwin /\ [][NextTwin]_vars

(***************************************************************************)
(* Process restarts: the client is constructed anew with the same key; a   *)
(* FileCache finds its file again, an InMemoryCache starts empty            *)
(***************************************************************************)
\* a restart under which the memory of the process survives as well
RestartStore_Kept(kind, slot) ==
    slot

\* the cache slot a newly started process finds
RestartStore(kind, slot) ==
    IF kind = "file" THEN slot ELSE <<>>

Restart ==
    /\ client' = [client EXCEPT !.AccessToken = ""]
    /\ store' = RestartStore(cacheKind, store)
    /\ last' = [op |-> "Restart", pre |-> Pre]
    /\ UNCHANGED <<mode, cacheKind, clock, lastSet, extVars>>

NextRestart ==
    \/ Tick
    \/ DoRefreshAccessToken
    \/ Restart

SpecRestart == Init /\ [][NextRestart]_vars

(***************************************************************************)
(* Two invocations of RefreshAccessToken on one client, interleaved        *)
(* statement by statement.  Nothing in the code orders their accesses to    *)
(* c.AccessToken and to the cache, so a read or write that overlaps a       *)
(* write of the other invocation may see or leave a torn value.             *)
(***************************************************************************)
Threads == {1, 2}

Other(t) == CHOOSE u \in Threads : u # t

\* var res AccessTokenResponse, before the call has run a statement
IdleThread ==
    [pc |-> "start", res |-> ZeroRes, getErr |-> Nil, rpcs |-> 0,
     err |-> Nil]

\* a string assembled from the halves of two racing writes
TornToken == "torn"

\* the answers the two authentication calls are tried against
ConcResponses ==
    { r \in AuthResponses :
        /\ r.StatusCode = HTTPStatusOK
        /\ r.ContentType = typeJSON
        /\ ~r.readErr
        /\ r.Body.bytes \in {<<1>>, <<2>>, <<3>>} }

InitConc ==
    /\ client = [AppKey |-> "K", AppSecret |-> "S", AccessToken |-> ""]
    /\ mode \in {"json", "query"}
    /\ cacheKind \in {"file", "mem"}
    /\ store \in (IF cacheKind = "file" THEN InitFiles ELSE {<<>>})
    /\ clock = 0
    /\ lastSet = <<>>
    /\ twin = <<>>
    /\ files = <<>>
    /\ facades = <<>>
    /\ threads = [t \in Threads |-> IdleThread]
    /\ last = [op |-> "init"]

\* what a cache read can see: the slot, or a torn text while the other
\* invocation is writing it
RacyRead(t) ==
    {store} \cup (IF threads[Other(t)].pc = "set" THEN {<<BadDoc>>} ELSE {})

\* what an assignment of tok to c.AccessToken can leave: tok, or a torn
\* string while the other invocation is assigning too
RacyWrite(t, tok) ==
    {tok} \cup (IF threads[Other(t)].pc \in {"hit", "adopt"}
                THEN {TornToken} ELSE {})

\* a call that returns the error of the cache read instead of
\* authenticating
StepAfterGet_GiveUp(err) ==
    IF err = Nil THEN "hit" ELSE "done"

\* if err == nil { ... return nil }; otherwise the call goes on to httpRPC
StepAfterGet(err) ==
    IF err = Nil THEN "hit" ELSE "rpc"

\* err := c.Cache.Get(&res)
ThreadGet(t) ==
    /\ threads[t].pc = "start"
    /\ \E seen \in RacyRead(t) :
        LET g == CacheGet(cacheKind, seen, threads[t].res, clock)
        IN  threads' = [threads EXCEPT ![t] =
                          [@ EXCEPT !.pc = StepAfterGet(g.err),
                                    !.res = g.data,
                                    !.getErr = g.err,
                                    !.err = g.err]]
    /\ last' = [op |-> "ThreadGet", t |-> t]
    /\ UNCHANGED <<client, mode, cacheKind, store, clock, lastSet, twin,
                   files, facades>>

\* c.AccessToken = res.Data.AccessToken; return nil
ThreadHit(t) ==
    /\ threads[t].pc = "hit"
    /\ \E tok \in RacyWrite(t, threads[t].res.Data.AccessToken) :
        client' = [client EXCEPT !.AccessToken = tok]
    /\ threads' = [threads EXCEPT ![t] = [@ EXCEPT !.pc = "done",
                                                   !.err = Nil]]
    /\ last' = [op |-> "hit", t |-> t]
    /\ UNCHANGED <<mode, cacheKind, store, clock, lastSet, twin, files,
                   facades>>

\* err = c.httpRPC("/lapp/token/get", nil, params, &res)
ThreadRPC(t) ==
    /\ threads[t].pc = "rpc"
    /\ \E resp \in ConcResponses :
        LET r == httpRPC(mode, client, TokenPath, AuthParams(mode, client),
                         AuthPayload(mode, client), Shape(threads[t].res),
                         resp)
        IN  threads' = [threads EXCEPT ![t] =
                          [@ EXCEPT !.pc = IF r.err = Nil /\ ~r.panicked
                                           THEN "adopt" ELSE "done",
                                    !.res = r.responseData.res,
                                    !.rpcs = @ + Len(r.requests),
                                    !.err = r.err]]
    /\ last' = [op |-> "rpc", t |-> t]
    /\ UNCHANGED <<client, mode, cacheKind, store, clock, lastSet, twin,
                   files, facades>>

\* c.AccessToken = res.Data.AccessToken, after the authentication call
ThreadAdopt(t) ==
    /\ threads[t].pc = "adopt"
    /\ \E tok \in RacyWrite(t, threads[t].res.Data.AccessToken) :
        client' = [client EXCEPT !.AccessToken = tok]
    /\ threads' = [threads EXCEPT ![t] = [@ EXCEPT !.pc = "set"]]
    /\ last' = [op |-> "adopt", t |-> t]
    /\ UNCHANGED <<mode, cacheKind, store, clock, lastSet, twin, files,
                   facades>>

\* err = c.Cache.Set(&res); return err
ThreadSet(t) ==
    /\ threads[t].pc = "set"
    /\ \E wr \in (IF cacheKind = "file" THEN WriteOutcomes ELSE {"none"}) :
        LET s == CacheSet(cacheKind, store, threads[t].res, wr)
        IN  /\ store' = s.store
            /\ lastSet' = <<[data |-> threads[t].res, err |-> s.err]>>
            /\ threads' = [threads EXCEPT ![t] = [@ EXCEPT !.pc = "done",
                                                           !.err = s.err]]
    /\ last' = [op |-> "ThreadSet", t |-> t]
    /\ UNCHANGED <<client, mode, cacheKind, clock, twin, files, facades>>

NextConc ==
    \/ Tick
    \/ \E t \in Threads : ThreadGet(t)
    \/ \E t \in Threads : ThreadHit(t)
    \/ \E t \in Threads : ThreadRPC(t)
    \/ \E t \in Threads : ThreadAdopt(t)
    \/ \E t \in Threads : ThreadSet(t)

SpecConc == InitConc /\ [][NextConc]_vars

(***************************************************************************)
(* Several clients on one file system: each is made by NewEzvizClient and  *)
(* keeps its record in the file that its application key names             *)
(***************************************************************************)
\* every client on one file, whatever its key
CachePath_Shared(appKey) ==
    <<"ezviz_", "", ".auth_file">>

\* fmt.Sprintf("ezviz_%s.auth_file", appKey)
CachePath(appKey) ==
    <<"ezviz_", appKey, ".auth_file">>

\* NewEzvizClient(appKey, appSecret): no token yet, the FileCache at the
\* path of the key
NewEzvizClient(appKey, appSecret) ==
    [AppKey |-> appKey, AppSecret |-> appSecret, AccessToken |-> "",
     Path |-> CachePath(appKey)]

\* the clients constructed, by key and secret: two keys, and two secrets
\* under the first key
Facades ==
    {<<"K1", "S1">>, <<"K2", "S2">>, <<"K1", "S2">>}

InitIso ==
    /\ client = [AppKey |-> "K", AppSecret |-> "S", AccessToken |-> ""]
    /\ mode \in {"json", "query"}
    /\ cacheKind = "file"
    /\ store = <<>>
    /\ clock = 0
    /\ lastSet = <<>>
    /\ twin = <<>>
    /\ threads = <<>>
    /\ facades = [f \in Facades |-> NewEzvizClient(f[1], f[2])]
    /\ files = [p \in {CachePath(f[1]) : f \in Facades} |-> <<>>]
    /\ last = [op |-> "init"]

\* RefreshAccessToken called on the client f
IsoRefresh(f) ==
    \E resp \in ConcResponses, wr \in WriteOutcomes :
        LET c == facades[f]
            out == RefreshAccessToken(mode, c, "file", files[c.Path], clock,
                                      resp, wr)
        IN  /\ facades' = [facades EXCEPT ![f] = out.client]
            /\ files' = [files EXCEPT ![c.Path] = out.store]
            /\ last' = [op |-> "IsoRefresh", f |-> f,
                        sent |-> Len(out.rpc), err |-> out.err]
            /\ UNCHANGED <<client, mode, cacheKind, store, clock, lastSet,
                           twin, threads>>

NextIso ==
    \/ Tick
    \/ \E f \in Facades : IsoRefresh(f)

SpecIso == InitIso /\ [][NextIso]_vars

(***************************************************************************)
(* Properties                                                              *)
(***************************************************************************)
IsRefresh == last.op = "RefreshAccessToken"

IsDispatch == last.op = "httpRPC"

\* the record a cache slot spells, read into a zero-value record
Decoded(slot) ==
    Unmarshal(slot[1], ZeroRes).data

\* the slot holds a decodable record whose expiration instant is in the future
HoldsFreshRecord(slot, now) ==
    /\ slot # <<>>
    /\ slot[1].valid
    /\ now * MsPerSecond < GetExpireTime(Decoded(slot))

\* the record a response body spells, read into a zero-value record
ResponseRecord(resp) ==
    Unmarshal(resp.Body.doc, ZeroRes).data

\* a 200 response whose body was delivered whole
Complete200(resp) ==
    /\ resp.transport = "ok"
    /\ resp.StatusCode = HTTPStatusOK
    /\ ~resp.readErr

\* C1: cache-first refresh.  A RefreshAccessToken that starts with a
\* decodable, unexpired record in the cache returns success, makes no
\* network request and leaves the active token equal to the cached token.
C1_CacheFirstRefresh ==
    (IsRefresh /\ HoldsFreshRecord(last.pre.store, last.pre.clock))
    => /\ ~last.panicked
       /\ last.err = Nil
       /\ last.rpc = <<>>
       /\ client.AccessToken = Decoded(last.pre.store).Data.AccessToken

C1_Witness ==
    /\ IsRefresh
    /\ HoldsFreshRecord(last.pre.store, last.pre.clock)
    /\ last.pre.client.AccessToken # Decoded(last.pre.store).Data.AccessToken
    /\ client.AccessToken = "T0"

\* C2: fallback on miss.  A RefreshAccessToken whose cache read fails sends
\* the authentication request exactly once, and if that call succeeds the
\* active token is the token of the authentication response and the cache
\* slot holds the authentication response record.
C2_FallbackOnMiss ==
    (IsRefresh /\ last.get.err # Nil)
    => /\ Len(last.rpc) = 1
       /\ Len(last.rpc[1].requests) = 1
       /\ (~last.panicked /\ last.rpc[1].err = Nil)
          => /\ client.AccessToken
                  = ResponseRecord(last.resp).Data.AccessToken
             /\ store # <<>>
             /\ store[1].valid
             /\ Decoded(store) = ResponseRecord(last.resp)

\* C3: expiry enforcement.  Get on a decodable record whose expiration
\* instant is at or before now*1000 fails with the expiry error.
C3_ExpiryEnforcement ==
    ( /\ last.op = "Get"
      /\ last.pre.store # <<>>
      /\ last.pre.store[1].valid
      /\ GetExpireTime(Decoded(last.pre.store))
            <= last.pre.clock * MsPerSecond )
    => last.err = ErrExpired

\* C4: cache round trip.  Get after Set(R), with no other Set between and
\* before R expires, returns no error and yields a record equal to R.
C4_RoundTrip ==
    ( /\ last.op = "Get"
      /\ lastSet # <<>>
      /\ lastSet[1].err = Nil
      /\ clock * MsPerSecond < GetExpireTime(lastSet[1].data) )
    => /\ last.err = Nil
       /\ last.data = lastSet[1].data

\* C5: when the authentication call succeeds and the record cannot be
\* persisted, RefreshAccessToken returns the persistence failure, the
\* active token being already the new one.
C5_PersistFailureSurfaced ==
    ( /\ IsRefresh
      /\ last.rpc # <<>>
      /\ ~last.panicked
      /\ last.rpc[1].err = Nil
      /\ last.wr \in {"denied", "partial"} )
    => /\ last.err # Nil
       /\ client.AccessToken = last.rpc[1].responseData.res.Data.AccessToken

C7_NoPartialSuccess ==
    ( /\ last.op \in {"RefreshAccessToken", "httpRPC"}
      /\ last.rpc # <<>>
      /\ Complete200(last.rpc[1].resp)
      /\ IsJSON(last.rpc[1].resp.ContentType)
      /\ ~last.rpc[1].panicked
      /\ last.rpc[1].err = Nil )
    => /\ last.rpc[1].resp.Body.doc.valid
       /\ last.rpc[1].responseData.res = ResponseRecord(last.rpc[1].resp)

\* the caller supplied a non-empty accessToken parameter (a parameter's
\* value is its first value, as url.Values reads it)
SuppliedToken(params) ==
    /\ params.m["accessToken"] # <<>>
    /\ params.m["accessToken"][1] # ""

\* C8: token injection.  The query sent carries accessToken bound to the
\* active token exactly when a token is held and the caller supplied no
\* non-empty accessToken; otherwise the caller's parameters go out as they
\* came in, and every other parameter goes out unchanged in both cases.
C8_TokenInjection ==
    IsDispatch
    => LET sent == last.rpc[1].requests[1].query
           held == last.pre.client.AccessToken
       IN  /\ Len(last.rpc[1].requests) = 1
           /\ IF held # "" /\ ~SuppliedToken(last.params)
              THEN sent["accessToken"] = <<held>>
              ELSE sent["accessToken"] = last.params.m["accessToken"]
           /\ \A k \in ParamKeys \ {"accessToken"} :
                  sent[k] = last.params.m[k]

C8_Witness ==
    /\ IsDispatch
    /\ last.pre.client.AccessToken = "T1"
    /\ last.params = NilValues
    /\ last.rpc[1].requests[1].query["accessToken"] = <<"T1">>

\* C9: status short-circuit.  A response whose status is not 200 makes
\* dispatch return the server error carrying the status text; the body is
\* not decoded, the response shape is left as it was and nothing is
\* written to the sink.
C9_StatusShortCircuit ==
    ( /\ IsDispatch
      /\ last.rpc[1].resp.transport = "ok"
      /\ last.rpc[1].resp.StatusCode # HTTPStatusOK )
    => /\ ~last.panicked
       /\ last.err = <<"server", last.rpc[1].resp.Status>>
       /\ last.rpc[1].responseData = last.rpc[1].shapeIn

C9_Witness ==
    /\ IsDispatch
    /\ last.rpc[1].resp.StatusCode = 500
    /\ last.rpc[1].resp.ContentType = typeJSON
    /\ last.rpc[1].resp.Body.doc.valid
    /\ last.rpc[1].resp.Body.doc.code = <<"200">>
    /\ last.rpc[1].shapeIn.writer = "sink"
    /\ last.err = <<"server", "500 Internal Server Error">>

\* C10: content-type branching.  On a 200 response whose body is delivered
\* whole, a Content-Type that begins with application/json has the body
\* decoded into the shape and nothing written to the sink; any other
\* Content-Type has all body bytes copied in order into the shape's sink
\* and nothing decoded; in both branches the call returns what the shape's
\* domain-error check says.
C10_ContentTypeBranching ==
    (IsDispatch /\ Complete200(last.rpc[1].resp))
    => LET r == last.rpc[1]
       IN  /\ ~r.panicked
           /\ r.err = checkError(r.responseData.res)
           /\ IF IsJSON(r.resp.ContentType)
              THEN /\ r.responseData.res
                        = Unmarshal(r.resp.Body.doc, r.shapeIn.res).data
                   /\ r.responseData.sink = r.shapeIn.sink
              ELSE /\ r.responseData.res = r.shapeIn.res
                   /\ r.responseData.sink
                        = r.shapeIn.sink \o r.resp.Body.bytes

\* C11: domain error surfacing.  For a 200 response with a JSON content
\* type whose body is a JSON document, dispatch returns no error exactly
\* when the code of the document is "200", and for every other code, the
\* empty and the missing one included, the API error carrying that code
\* and the message of the document.
C11_DomainErrorSurfacing ==
    ( /\ last.op \in {"RefreshAccessToken", "httpRPC"}
      /\ last.rpc # <<>>
      /\ Complete200(last.rpc[1].resp)
      /\ IsJSON(last.rpc[1].resp.ContentType)
      /\ last.rpc[1].resp.Body.doc.valid )
    => LET rec == ResponseRecord(last.rpc[1].resp)
       IN  /\ ~last.rpc[1].panicked
           /\ (last.rpc[1].err = Nil) <=> (rec.Code = "200")
           /\ (rec.Code # "200")
              => last.rpc[1].err = <<"api", rec.Code, rec.Msg>>

\* the request carries the application key and secret of client c: as the
\* members of its JSON body or as query parameters
CarriesCredentials(req, c) ==
    \/ /\ req.body # <<>>
       /\ req.body[1].valid
       /\ req.body[1].members
            = [appkey |-> c.AppKey, appsecret |-> c.AppSecret]
    \/ /\ req.query["appKey"] = <<c.AppKey>>
       /\ req.query["appSecret"] = <<c.AppSecret>>

\* C15: request method selection.  The JSON-body variant posts a payload as
\* its JSON encoding with Content-Type application/json and sends GET
\* without a body when there is none; the query variant always posts
\* without a body; the authentication request of RefreshAccessToken
\* carries the application key and secret in both.
C15_RequestMethod ==
    (last.op \in {"RefreshAccessToken", "httpRPC"} /\ last.rpc # <<>>)
    => LET req == last.rpc[1].requests[1]
           payload == IF IsDispatch THEN last.payload
                      ELSE AuthPayload(mode, last.pre.client)
       IN  /\ IF mode = "json" /\ payload # <<>>
              THEN /\ req.method = "POST"
                   /\ req.body = <<MarshalPayload(payload[1])>>
                   /\ req.contentType = typeJSON
              ELSE /\ req.method = IF mode = "json" THEN "GET" ELSE "POST"
                   /\ req.body = <<>>
                   /\ req.contentType = <<>>
           /\ IsRefresh => CarriesCredentials(req, last.pre.client)
           /\ IsRefresh => req.path = TokenPath

C15_Witness ==
    /\ IsRefresh
    /\ mode = "json"
    /\ last.rpc # <<>>
    /\ last.rpc[1].requests[1].method = "POST"
    /\ last.rpc[1].requests[1].body
         = <<[valid |-> TRUE, members |-> [appkey |-> "K", appsecret |-> "S"]]>>
    /\ last.rpc[1].requests[1].query["accessToken"] = <<"T1">>

\* C16: token freshness after fallback.  A RefreshAccessToken that returns
\* success after its cache read failed with the expiry error has adopted
\* the token, and handed to Set the record, that the authentication
\* response carries, never those of the expired record.
C16_FreshAfterFallback ==
    ( /\ IsRefresh
      /\ last.get.err = ErrExpired
      /\ ~last.panicked
      /\ last.err = Nil )
    => /\ last.rpc # <<>>
       /\ last.rpc[1].resp.Body.doc.valid
       /\ client.AccessToken = ResponseRecord(last.resp).Data.AccessToken
       /\ last.wrote
       /\ lastSet[1].data = ResponseRecord(last.resp)

\* C18: only RefreshAccessToken changes credentials.  A call of httpRPC
\* leaves the client and the cache slot as they were; RefreshAccessToken
\* never changes the key or secret, changes the active token only when the
\* cache read succeeded or the authentication call succeeded, and writes
\* the cache only after a successful authentication call.
C18_OnlyRefreshChangesCredentials ==
    /\ IsDispatch => (client = last.pre.client /\ store = last.pre.store)
    /\ IsRefresh
       => /\ client.AppKey = last.pre.client.AppKey
          /\ client.AppSecret = last.pre.client.AppSecret
          /\ (client.AccessToken # last.pre.client.AccessToken)
             => \/ last.get.err = Nil
                \/ last.rpc # <<>> /\ last.rpc[1].err = Nil
          /\ (last.wrote \/ store # last.pre.store)
             => (last.rpc # <<>> /\ last.rpc[1].err = Nil)

C18_Witness ==
    /\ IsRefresh
    /\ last.get.err # Nil
    /\ last.rpc[1].err = Nil
    /\ client.AccessToken # last.pre.client.AccessToken
    /\ last.pre.client.AccessToken # ""
    /\ store # last.pre.store

\* C17: Get is read-only on the slot.  A Get never changes the contents of
\* the cache slot, an expired record is kept, and once a Get of the slot
\* fails with the expiry error it keeps failing with it over every step
\* that is not a Set.
C17_GetReadOnly ==
    [][ /\ (last'.op = "Get") => (store' = store)
        /\ ( /\ CacheGet(cacheKind, store, ZeroRes, clock).err = ErrExpired
             /\ last'.op # "Set" )
           => CacheGet(cacheKind, store', ZeroRes, clock').err = ErrExpired
      ]_vars

C17_Witness ==
    /\ last.op = "Get"
    /\ last.err = ErrExpired
    /\ last.pre.store # <<>>
    /\ store = last.pre.store
    /\ CacheGet(cacheKind, store, ZeroRes, clock).err = ErrExpired

\* the outcome of a cache call: success, expired, or not found / not
\* decodable
OutcomeClass(err) ==
    IF err = Nil THEN "success"
    ELSE IF err = ErrExpired THEN "expired"
    ELSE "miss"

\* C12: the two caches are interchangeable.  Over every sequence of Set,
\* Get and clock advances on a FileCache and an InMemoryCache that start
\* empty, each call has the same outcome in both and each Get yields the
\* same record in both, whatever the file system does with the writes.
C12_Interchangeable ==
    (last.op \in {"TwinSet", "TwinGet"})
    => /\ OutcomeClass(last.file.err) = OutcomeClass(last.mem.err)
       /\ (last.op = "TwinGet") => (last.file.data = last.mem.data)

\* C13: persistence across restarts.  With the FileCache, when the record
\* that an authenticating RefreshAccessToken stored is in the file and
\* expires in the future, the RefreshAccessToken of a restarted client
\* sends no request and adopts the token of that record; with the
\* InMemoryCache the restarted process finds the cache empty and its
\* RefreshAccessToken sends the authentication request.
C13_PersistenceAcrossRestarts ==
    [][ (last.op = "Restart" /\ last'.op = "RefreshAccessToken")
        => /\ ( /\ cacheKind = "file"
                /\ lastSet # <<>>
                /\ store = <<Marshal(lastSet[1].data).bytes>>
                /\ HoldsFreshRecord(store, clock) )
              => /\ last'.rpc = <<>>
                 /\ last'.err = Nil
                 /\ client'.AccessToken = lastSet[1].data.Data.AccessToken
           /\ (cacheKind = "mem")
              => /\ store = <<>>
                 /\ Len(last'.rpc) = 1
      ]_vars

\* a restarted client (its token was empty) that took the token T1 or T2 of
\* the record an earlier authentication stored, without a request
C13_Witness ==
    /\ IsRefresh
    /\ cacheKind = "file"
    /\ last.pre.client.AccessToken = ""
    /\ last.pre.clock > 0
    /\ lastSet # <<>>
    /\ last.pre.store = <<Marshal(lastSet[1].data).bytes>>
    /\ last.rpc = <<>>
    /\ client.AccessToken = lastSet[1].data.Data.AccessToken
    /\ client.AccessToken \in {"T1", "T2"}

\* C14: RefreshAccessToken is not safe for concurrent invocation.  Of two
\* interleaved invocations on one client, each that missed the cache sends
\* its own authentication request, so two that both missed send two; an
\* invocation that hit sends none.  (The state in which the active token
\* and the cached record disagree after both returned is C14_Witness.)
C14_BothIssueRPC ==
    \A t \in Threads :
        /\ threads[t].pc \in {"adopt", "set", "done"}
           => threads[t].rpcs = (IF threads[t].getErr = Nil THEN 0 ELSE 1)
        /\ threads[t].pc \in {"start", "hit", "rpc"} => threads[t].rpcs = 0

\* both invocations missed, authenticated and returned nil, and the client
\* is left with the token of one and the cache with the record of the other
C14_Witness ==
    /\ \A t \in Threads :
        /\ threads[t].pc = "done"
        /\ threads[t].getErr # Nil
        /\ threads[t].rpcs = 1
        /\ threads[t].err = Nil
    /\ store # <<>>
    /\ store[1].valid
    /\ client.AccessToken \in {"T1", "T2"}
    /\ Decoded(store).Data.AccessToken \in {"T1", "T2"}
    /\ Decoded(store).Data.AccessToken # client.AccessToken

\* C19: cache slot isolation by application key.  Clients with different
\* keys keep their records in different files, and a RefreshAccessToken on
\* one client changes neither the file read by, nor the token of, a client
\* with another key; clients with the same key read and write one file,
\* whatever their secrets.
C19_SlotIsolation ==
    [][ (last'.op = "IsoRefresh")
        => \A g \in Facades :
            IF facades[g].AppKey # facades[last'.f].AppKey
            THEN /\ facades[g].Path # facades[last'.f].Path
                 /\ files'[facades[g].Path] = files[facades[g].Path]
                 /\ facades'[g] = facades[g]
            ELSE /\ facades[g].Path = facades[last'.f].Path
                 /\ CacheGet("file", files'[facades'[g].Path], ZeroRes,
                             clock')
                      = CacheGet("file", files'[facades'[last'.f].Path],
                                 ZeroRes, clock')
      ]_vars

\* the client with key K1 and secret S2 took, without a request, the token
\* that the client with key K1 and secret S1 had stored, while the client
\* with key K2 has neither token nor file
C19_Witness ==
    /\ last.op = "IsoRefresh"
    /\ last.f = <<"K1", "S2">>
    /\ last.sent = 0
    /\ last.err = Nil
    /\ facades[<<"K1", "S2">>].AccessToken \in {"T1", "T2"}
    /\ facades[<<"K1", "S1">>].AccessToken
         = facades[<<"K1", "S2">>].AccessToken
    /\ facades[<<"K2", "S2">>].AccessToken = ""
    /\ files[CachePath("K2")] = <<>>
    /\ files[CachePath("K1")] # <<>>

====
